---- MODULE Spec2Model ----
(***************************************************************************)
(* The Brainfuck interpreter of src/main.rs.                               *)
(* The evaluator: consume_tokens walking a token tree against a tape, a    *)
(* tape pointer and an input iterator.  The native recursion of            *)
(* consume_tokens (one call per pass through a loop body) is an explicit   *)
(* stack of frames; one action per arm of the match.                       *)
(* The parser: parse_input and the nom parsers it is made of, as operators *)
(* on a source, applied by one action.                                     *)
(***************************************************************************)
EXTENDS Integers, Sequences, FiniteSets, TLC

\* ---------------------------------------------------------------- bounds
\* The tape length.  main.rs fixes it at 32000; the model runs a short tape.
TAPE_SIZE == 3
\* The number of values of a usize.  2^64 on the build's target; scaled.
USIZE_MODULUS == 8
\* Longest run of Plus tokens in the PlusRun programs.
MaxPlus == 256
\* Largest number of tokens (nested ones included) of an enumerated program.
MaxTokens == 3
\* Longest input string.
MaxInputLen == 2
\* Most bytes written to stdout; a run that would write more stops there.
MaxStdout == 6
\* Longest enumerated source.
MaxSourceLen == 4

\* ---------------------------------------------------------------- types
\* The number of values of a u8, the cell type of Tape.
U8_MODULUS == 256

\* Token: every variant carries `expr`, empty unless it is a Loop.
Tok(name) == [op |-> name, expr |-> <<>>]
Plus == Tok("Plus")
Minus == Tok("Minus")
ShiftRight == Tok("ShiftRight")
ShiftLeft == Tok("ShiftLeft")
Output == Tok("Output")
Input == Tok("Input")
Comment == Tok("Comment")
Loop(expr) == [op |-> "Loop", expr |-> expr]

SimpleTokens == {Plus, Minus, ShiftRight, ShiftLeft, Output, Input, Comment}

\* ------------------------------------------------------ programs, inputs
RECURSIVE ProgramsOfSize(_)
RECURSIVE TokensOfSize(_)
\* Every token made of exactly n tokens, itself and its nested ones.
TokensOfSize(n) ==
    (IF n = 1 THEN SimpleTokens ELSE {})
        \cup {Loop(b) : b \in ProgramsOfSize(n - 1)}
\* Every Vec<Token> made of exactly n tokens.
ProgramsOfSize(n) ==
    IF n = 0 THEN {<<>>}
    ELSE UNION {{<<t>> \o rest : t \in TokensOfSize(k),
                                 rest \in ProgramsOfSize(n - k)} : k \in 1..n}

Repeat(t, n) == [i \in 1..n |-> t]

\* "+" n times, then ".".
PlusRun(n) == Repeat(Plus, n) \o <<Output>>

\* Programs of the tests and of their kind, with deeper nesting than the
\* enumerated ones.
\* multiplication_integration_test, "+++++++ [>+++<-]>"
Multiplication ==
    Repeat(Plus, 7)
        \o <<Loop(<<ShiftRight, Plus, Plus, Plus, ShiftLeft, Minus>>), ShiftRight>>
\* The same with a "+" and b "+": a times b into the second cell.
Mult(a, b) ==
    Repeat(Plus, a)
        \o <<Loop(<<ShiftRight>> \o Repeat(Plus, b) \o <<ShiftLeft, Minus>>),
             ShiftRight>>
\* The factors tried: those of the test, a zero on either side, and products
\* of 256.
MultPairs == {<<7, 3>>, <<0, 3>>, <<3, 0>>, <<2, 128>>, <<16, 16>>}
\* read_input_test, ",.>,."
ReadInput == <<Input, Output, ShiftRight, Input, Output>>
\* ">" once per cell of the tape
ShiftRightRun == Repeat(ShiftRight, TAPE_SIZE)
\* "++[.-].": Output inside a loop body
OutputInLoop == <<Plus, Plus, Loop(<<Output, Minus>>), Output>>
\* "++[>+[-]<-]": a nested loop that ends with the outer counter non-zero
NestedLoop ==
    <<Plus, Plus, Loop(<<ShiftRight, Plus, Loop(<<Minus>>), ShiftLeft, Minus>>)>>
\* "+[-.+.-]": the cell is 0 part-way through the body
ZeroMidBody == <<Plus, Loop(<<Minus, Output, Plus, Output, Minus>>)>>

Scenarios ==
    { Multiplication, ReadInput, ShiftRightRun, ShiftRightRun \o <<Output>>,
      OutputInLoop, NestedLoop, ZeroMidBody,
      \* "+[,.]": Input and Output inside a loop body
      <<Plus, Loop(<<Input, Output>>)>>,
      \* "+[>.[.]<-]."
      <<Plus, Loop(<<ShiftRight, Output, Loop(<<Output>>), ShiftLeft, Minus>>), Output>> }

Programs ==
    UNION {ProgramsOfSize(n) : n \in 0..MaxTokens}
        \cup {PlusRun(n) : n \in 0..MaxPlus}
        \cup {Mult(p[1], p[2]) : p \in MultPairs}
        \cup Scenarios

\* The chars an input string is made of, as code points: 'H' and 'I' of
\* read_input_test, the first non-ASCII char, and the first char that is
\* more than one byte wide.
InputChars == {72, 73, 128, 256}

Inputs == UNION {[1..n -> InputChars] : n \in 0..MaxInputLen}

RECURSIVE HasInput(_)
HasInput(tokens) ==
    \E i \in 1..Len(tokens) :
        tokens[i].op = "Input" \/ HasInput(tokens[i].expr)

\* --------------------------------------------------------------- parser
\* The nom parsers of main.rs over a source, a sequence of one-char strings.
\* IResult: Done(remaining input, output), Error or Incomplete.
Done(rest, out) == [kind |-> "Done", rest |-> rest, out |-> out]
Error == [kind |-> "Error", rest |-> <<>>, out |-> <<>>]
Incomplete == [kind |-> "Incomplete", rest |-> <<>>, out |-> <<>>]

Drop(i, n) == SubSeq(i, n + 1, Len(i))

\* tag!(t): Error on a mismatch within the bytes there are, Incomplete when
\* the input ends inside the tag.
Tag(t, i) ==
    LET m == IF Len(i) < Len(t) THEN Len(i) ELSE Len(t)
    IN  IF SubSeq(i, 1, m) # SubSeq(t, 1, m) THEN Error
        ELSE IF m < Len(t) THEN Incomplete
        ELSE Done(Drop(i, Len(t)), t)

\* do_parse!(tag!(t) >> (tok))
TagToken(t, tok, i) ==
    LET r == Tag(t, i)
    IN  IF r.kind = "Done" THEN Done(r.rest, tok) ELSE r

plus_parser(i) == TagToken(<<"+">>, Plus, i)
minus_parser(i) == TagToken(<<"-">>, Minus, i)
shiftr_parser(i) == TagToken(<<">">>, ShiftRight, i)
shiftl_parser(i) == TagToken(<<"<">>, ShiftLeft, i)
output_parser(i) == TagToken(<<".">>, Output, i)
input_parser(i) == TagToken(<<",">>, Input, i)

\* The separator of ws!: the input after its leading spaces, tabs, carriage
\* returns and newlines.  It never fails.
RECURSIVE sp(_)
sp(i) ==
    IF i # <<>> /\ Head(i) \in {" ", "\t", "\r", "\n"} THEN sp(Tail(i)) ELSE i

\* line_ending: "\n" or "\r\n".
line_ending(i) ==
    IF i = <<>> THEN Incomplete
    ELSE IF Head(i) = "\n" THEN Done(Tail(i), <<"\n">>)
    ELSE Tag(<<"\r", "\n">>, i)

\* many_till!(anychar, line_ending): chars up to and with the line ending;
\* Incomplete when the input ends first.
RECURSIVE many_till(_)
many_till(i) ==
    LET e == line_ending(i)
    IN  IF e.kind = "Done" THEN Done(e.rest, <<>>)
        ELSE IF i = <<>> THEN Incomplete
        ELSE many_till(Tail(i))

\* complete!(p): Incomplete becomes Error.
Complete(r) == IF r.kind = "Incomplete" THEN Error ELSE r

comment_parser(i) ==
    LET t == Tag(<<"/", "/">>, i)
    IN  IF t.kind # "Done" THEN t
        ELSE LET c == Complete(many_till(t.rest))
             IN  IF c.kind = "Done" THEN Done(c.rest, Comment) ELSE c

\* The parsers of alt!( plus_parser | ... | input_parser ), in its order.
TagParsers ==
    << <<"+", Plus>>, <<"-", Minus>>, <<">", ShiftRight>>, <<"<", ShiftLeft>>,
       <<".", Output>>, <<",", Input>> >>

RECURSIVE syntax(_)
RECURSIVE loop_parser(_)
RECURSIVE many0_syntax(_, _)
RECURSIVE alt_tags(_, _)

\* alt! over the tag parsers from the k-th on: the first result that is not
\* an Error, Incomplete included; then loop_parser, then comment_parser.
alt_tags(k, i) ==
    IF k > Len(TagParsers)
    THEN LET l == loop_parser(i)
         IN  IF l.kind # "Error" THEN l ELSE comment_parser(i)
    ELSE LET r == TagToken(<<TagParsers[k][1]>>, TagParsers[k][2], i)
         IN  IF r.kind # "Error" THEN r ELSE alt_tags(k + 1, i)

syntax(i) == alt_tags(1, i)

\* many0! over syntax.  Inside ws!(delimited!(..)) each item is sp then
\* syntax (trail = FALSE); in brainfuck_parser each item is ws!(syntax), sp
\* then syntax then sp (trail = TRUE).  An Error of the item ends the list
\* with the input as it was before the item.
many0_syntax(i, trail) ==
    IF i = <<>> THEN Done(i, <<>>)
    ELSE LET r == syntax(sp(i))
         IN  IF r.kind = "Error" THEN Done(i, <<>>)
             ELSE IF r.kind = "Incomplete" THEN Incomplete
             ELSE LET after == IF trail THEN sp(r.rest) ELSE r.rest
                  IN  IF after = i THEN Error
                      ELSE LET more == many0_syntax(after, trail)
                           IN  IF more.kind = "Done"
                               THEN Done(more.rest, <<r.out>> \o more.out)
                               ELSE more

\* ws!(delimited!(tag!("["), many0!(syntax), tag!("]")))
loop_parser(i) ==
    LET open == Tag(<<"[">>, sp(i))
    IN  IF open.kind # "Done" THEN open
        ELSE LET body == many0_syntax(open.rest, FALSE)
             IN  IF body.kind # "Done" THEN body
                 ELSE LET close == Tag(<<"]">>, sp(body.rest))
                      IN  IF close.kind # "Done" THEN close
                          ELSE Done(sp(close.rest), Loop(body.out))

\* do_parse!(tokens: many0!(ws!(syntax)) >> (tokens))
brainfuck_parser(i) == many0_syntax(i, TRUE)

\* The chars of a source: the eight command chars, '/', a space, a newline
\* and a char that starts no statement.
SourceChars == {"+", "-", ">", "<", ".", ",", "[", "]", "/", " ", "\n", "x"}

\* "+ //", the source of ignore_comment_eof_test
CommentAtEof == <<"+", " ", "/", "/">>
\* "+ //+\n+", the source of ignore_comment_eol_test without its indentation
CommentAtEol == <<"+", " ", "/", "/", "+", "\n", "+">>
\* "[+[++]-]", the source of nested_loop_test
NestedLoopSource == <<"[", "+", "[", "+", "+", "]", "-", "]">>
\* "+[ - ] >", a loop with whitespace right after '[' and right before ']'
SpacedLoopSource == <<"+", "[", " ", "-", " ", "]", " ", ">">>

Sources ==
    UNION {[1..n -> SourceChars] : n \in 0..MaxSourceLen}
        \cup {CommentAtEof, CommentAtEol, NestedLoopSource, SpacedLoopSource}

\* ---------------------------------------------------------------- state
VARIABLES
    source,           \* the String handed to parse_input
    remainder,        \* the input brainfuck_parser left unparsed
    program,          \* the tokens handed to the outermost consume_tokens
    overflow_checks,  \* whether the build checks integer overflow
    tape,             \* [u8; TAPE_SIZE]
    tape_pointer,     \* usize
    input,            \* the chars the Chars iterator has left
    stack,            \* one frame per consume_tokens call in progress
    stdout,           \* the bytes print! has written
    status,           \* "parsing", "parsed", "running", "returned", "panicked"
    panic_msg,        \* the panic that ended the run
    result            \* the String the outermost consume_tokens returned

vars == <<source, remainder, program, overflow_checks, tape, tape_pointer, input, stack, stdout,
          status, panic_msg, result>>

\* `value as char`, then the char as a String or print! holds it: UTF-8.
CharUtf8(c) ==
    IF c < 128 THEN <<c>>
    ELSE <<192 + (c \div 64), 128 + (c % 64)>>

\* A new call of consume_tokens: its tokens, the position of its `for`,
\* and its own output_string.
NewFrame(tokens) == [tokens |-> tokens, pc |-> 1, output_string |-> <<>>]

\* The state at a call of consume_tokens on a fresh tape, as the tests and
\* main make it; the tokens are given, the parser is not part of the run.
Init ==
    /\ source = <<>>
    /\ remainder = <<>>
    /\ program \in Programs
    /\ overflow_checks \in BOOLEAN
    /\ tape = [i \in 0..(TAPE_SIZE - 1) |-> 0]
    /\ tape_pointer = 0
    /\ input \in (IF HasInput(program) THEN Inputs ELSE {<<>>})
    /\ stack = <<NewFrame(program)>>
    /\ stdout = <<>>
    /\ status = "running"
    /\ panic_msg = ""
    /\ result = <<>>

\* ------------------------------------------------------------- helpers
Depth == Len(stack)
Frame == stack[Depth]

\* ForDone, were the `while` condition looked at before every token of a body.
ForDone_EveryToken ==
    \/ Frame.pc > Len(Frame.tokens)
    \/ Depth > 1 /\ tape_pointer < TAPE_SIZE /\ tape[tape_pointer] = 0

\* `for token in tokens` has no token left.
ForDone == Frame.pc > Len(Frame.tokens)

token == Frame.tokens[Frame.pc]

At(name) == status = "running" /\ ~ForDone /\ token.op = name

\* NextToken, were the `for` to skip a token.
NextToken_SkipsOne == [stack EXCEPT ![Depth].pc = @ + 2]

\* The `for` moves on to the next token.
NextToken == [stack EXCEPT ![Depth].pc = @ + 1]

\* tape[*tape_pointer] is inside the array.
InBounds == tape_pointer < TAPE_SIZE

\* LoopCondition, were the comparison off by one.
LoopCondition_OffByOne == tape[tape_pointer] > 1

\* The `while` condition of the Loop arm.
LoopCondition == tape[tape_pointer] > 0

\* `c.is_ascii()`.
IsAscii(c) == c < 128

\* `c as u8`.
AsU8(c) == c % U8_MODULUS

Panic(msg) ==
    /\ status' = "panicked"
    /\ panic_msg' = msg
    /\ UNCHANGED <<source, remainder, program, overflow_checks, tape, tape_pointer, input, stack,
                   stdout, result>>

IndexPanic == Panic("index out of bounds")

\* ------------------------------------------------------------- actions
\* Token::Plus => tape[*tape_pointer] += 1
ExecPlus ==
    /\ At("Plus")
    /\ IF ~InBounds THEN IndexPanic
       ELSE IF tape[tape_pointer] = U8_MODULUS - 1 /\ overflow_checks
       THEN Panic("attempt to add with overflow")
       ELSE /\ tape' = [tape EXCEPT ![tape_pointer] = (@ + 1) % U8_MODULUS]
            /\ stack' = NextToken
            /\ UNCHANGED <<source, remainder, program, overflow_checks, tape_pointer, input,
                           stdout, status, panic_msg, result>>

\* Token::Minus => tape[*tape_pointer] -= 1
ExecMinus ==
    /\ At("Minus")
    /\ IF ~InBounds THEN IndexPanic
       ELSE IF tape[tape_pointer] = 0 /\ overflow_checks
       THEN Panic("attempt to subtract with overflow")
       ELSE /\ tape' = [tape EXCEPT ![tape_pointer] = (@ - 1) % U8_MODULUS]
            /\ stack' = NextToken
            /\ UNCHANGED <<source, remainder, program, overflow_checks, tape_pointer, input,
                           stdout, status, panic_msg, result>>

\* ExecShiftRight, were it to clear the cell it moves to.
ExecShiftRight_ClearsCell ==
    /\ At("ShiftRight")
    /\ tape_pointer' = (tape_pointer + 1) % USIZE_MODULUS
    /\ tape' = IF tape_pointer + 1 < TAPE_SIZE
               THEN [tape EXCEPT ![tape_pointer + 1] = 0]
               ELSE tape
    /\ stack' = NextToken
    /\ UNCHANGED <<source, remainder, program, overflow_checks, input, stdout,
                   status, panic_msg, result>>

\* Token::ShiftRight => *tape_pointer += 1
ExecShiftRight ==
    /\ At("ShiftRight")
    /\ IF tape_pointer = USIZE_MODULUS - 1 /\ overflow_checks
       THEN Panic("attempt to add with overflow")
       ELSE /\ tape_pointer' = (tape_pointer + 1) % USIZE_MODULUS
            /\ stack' = NextToken
            /\ UNCHANGED <<source, remainder, program, overflow_checks, tape, input, stdout,
                           status, panic_msg, result>>

\* Token::ShiftLeft => *tape_pointer -= 1
ExecShiftLeft ==
    /\ At("ShiftLeft")
    /\ IF tape_pointer = 0 /\ overflow_checks
       THEN Panic("attempt to subtract with overflow")
       ELSE /\ tape_pointer' = (tape_pointer - 1) % USIZE_MODULUS
            /\ stack' = NextToken
            /\ UNCHANGED <<source, remainder, program, overflow_checks, tape, input, stdout,
                           status, panic_msg, result>>

\* Token::Output => print!, then output_string.push
ExecOutput ==
    /\ At("Output")
    /\ IF ~InBounds THEN IndexPanic
       ELSE /\ Len(stdout) + Len(CharUtf8(tape[tape_pointer])) <= MaxStdout
            /\ stdout' = stdout \o CharUtf8(tape[tape_pointer])
            /\ stack' = [NextToken EXCEPT ![Depth].output_string =
                            @ \o CharUtf8(tape[tape_pointer])]
            /\ UNCHANGED <<source, remainder, program, overflow_checks, tape, tape_pointer, input,
                           status, panic_msg, result>>

\* Token::Input => match input.next()
ExecInput ==
    /\ At("Input")
    /\ IF input = <<>> THEN Panic("Ran out of input")
       ELSE IF ~IsAscii(Head(input))
       THEN /\ status' = "panicked"
            /\ panic_msg' = "character is not ascii"
            /\ input' = Tail(input)
            /\ UNCHANGED <<source, remainder, program, overflow_checks, tape, tape_pointer, stack,
                           stdout, result>>
       ELSE IF ~InBounds
       THEN /\ status' = "panicked"
            /\ panic_msg' = "index out of bounds"
            /\ input' = Tail(input)
            /\ UNCHANGED <<source, remainder, program, overflow_checks, tape, tape_pointer, stack,
                           stdout, result>>
       ELSE /\ tape' = [tape EXCEPT ![tape_pointer] = AsU8(Head(input))]
            /\ input' = Tail(input)
            /\ stack' = NextToken
            /\ UNCHANGED <<source, remainder, program, overflow_checks, tape_pointer, stdout,
                           status, panic_msg, result>>

\* Token::Loop => while tape[*tape_pointer] > 0 { consume_tokens(&expr, ..) }
\* One evaluation of the condition: a pass through the body starts, or the
\* `for` moves past the Loop.
ExecLoop ==
    /\ At("Loop")
    /\ IF ~InBounds THEN IndexPanic
       ELSE /\ stack' = IF LoopCondition
                        THEN Append(stack, NewFrame(token.expr))
                        ELSE NextToken
            /\ UNCHANGED <<source, remainder, program, overflow_checks, tape, tape_pointer, input,
                           stdout, status, panic_msg, result>>

\* _ => {}
ExecComment ==
    /\ At("Comment")
    /\ stack' = NextToken
    /\ UNCHANGED <<source, remainder, program, overflow_checks, tape, tape_pointer, input, stdout,
                   status, panic_msg, result>>

\* The consume_tokens of a loop body returns its output_string, which the
\* `while` drops; the `while` evaluates its condition next.
ReturnToLoop ==
    /\ status = "running"
    /\ ForDone
    /\ Depth > 1
    /\ stack' = SubSeq(stack, 1, Depth - 1)
    /\ UNCHANGED <<source, remainder, program, overflow_checks, tape, tape_pointer, input, stdout,
                   status, panic_msg, result>>

\* The outermost consume_tokens returns its output_string to its caller.
ReturnToCaller ==
    /\ status = "running"
    /\ ForDone
    /\ Depth = 1
    /\ status' = "returned"
    /\ result' = Frame.output_string
    /\ UNCHANGED <<source, remainder, program, overflow_checks, tape, tape_pointer, input, stack,
                   stdout, panic_msg>>

Next ==
    \/ ExecPlus
    \/ ExecMinus
    \/ ExecShiftRight
    \/ ExecShiftLeft
    \/ ExecOutput
    \/ ExecInput
    \/ ExecLoop
    \/ ExecComment
    \/ ReturnToLoop
    \/ ReturnToCaller

Spec == Init /\ [][Next]_vars

\* The evaluator is one thread that runs until it returns or panics: a step
\* that can be taken is taken.
FairSpec == Spec /\ WF_vars(Next)

\* ------------------------------------------------------------ parse_input
\* The state at a call of parse_input, before main sets up tape and pointer.
ParseInit ==
    /\ source \in Sources
    /\ remainder = <<>>
    /\ program = <<>>
    /\ overflow_checks \in BOOLEAN
    /\ tape = [i \in 0..(TAPE_SIZE - 1) |-> 0]
    /\ tape_pointer = 0
    /\ input = <<>>
    /\ stack = <<>>
    /\ stdout = <<>>
    /\ status = "parsing"
    /\ panic_msg = ""
    /\ result = <<>>

\* let (_,b) = brainfuck_parser(input.as_bytes()).unwrap(); b
\* unwrap panics on Error and on Incomplete; what Done leaves unparsed is
\* dropped.
parse_input ==
    /\ status = "parsing"
    /\ LET r == brainfuck_parser(source)
       IN  IF r.kind = "Done"
           THEN /\ status' = "parsed"
                /\ program' = r.out
                /\ remainder' = r.rest
                /\ panic_msg' = panic_msg
           ELSE /\ status' = "panicked"
                /\ panic_msg' = "unwrap() called on an IResult that is " \o r.kind
                /\ UNCHANGED <<program, remainder>>
    /\ UNCHANGED <<source, overflow_checks, tape, tape_pointer, input, stack,
                   stdout, result>>

ParseNext == parse_input

ParseSpec == ParseInit /\ [][ParseNext]_vars

\* ---------------------------------------------------------------- claims
Cell == tape[tape_pointer]

\* C1: when the run succeeds, the String that consume_tokens returns holds
\* the output of every Output executed, those inside loop bodies included:
\* it equals what was written to stdout.
C1_ReturnedOutputIsAllOutput ==
    status = "returned" => result = stdout

\* C2: Plus on a cell holding 255 leaves 0 and Minus on a cell holding 0
\* leaves 255, the run goes on with the next token, and every cell stays
\* in 0..255.
C2_CellArithmeticWraps ==
    /\ [](\A i \in 0..(TAPE_SIZE - 1) : tape[i] \in 0..255)
    /\ [][/\ (At("Plus") /\ InBounds /\ Cell = 255)
                => (status' = "running" /\ tape'[tape_pointer] = 0
                        /\ stack' = NextToken)
          /\ (At("Minus") /\ InBounds /\ Cell = 0)
                => (status' = "running" /\ tape'[tape_pointer] = 255
                        /\ stack' = NextToken)]_vars

\* C3: in every reachable state the tape pointer is an index of the tape.
C3_PointerInRange ==
    tape_pointer \in 0..(TAPE_SIZE - 1)

\* C4: ShiftRight with the pointer on the last cell ends the run there with
\* a returned TapeOverflow error, and the pointer stays on the tape.
C4_ShiftRightAtEndIsTapeOverflow ==
    [][(At("ShiftRight") /\ tape_pointer = TAPE_SIZE - 1)
          => (status' = "TapeOverflow" /\ tape_pointer' = tape_pointer)]_vars

\* C5: ShiftLeft with the pointer at 0 ends the run there with a returned
\* TapeUnderflow error: the pointer does not wrap and nothing panics.
C5_ShiftLeftAtZeroIsTapeUnderflow ==
    [][(At("ShiftLeft") /\ tape_pointer = 0)
          => (status' = "TapeUnderflow" /\ tape_pointer' = 0)]_vars

\* C6: Input with no char left ends the run with a returned InputExhausted
\* error, not with a panic.
C6_InputExhaustedIsReturned ==
    [][(At("Input") /\ input = <<>>) => status' = "InputExhausted"]_vars

\* C7: Input stores every char whose code point is below 256 in the current
\* cell and the run goes on; a char of code point 256 or above fails the run.
C7_InputAcceptsOneByteChars ==
    [][(At("Input") /\ input # <<>> /\ InBounds)
          => IF Head(input) < 256
             THEN /\ status' = "running"
                  /\ tape'[tape_pointer] = Head(input)
                  /\ stack' = NextToken
             ELSE status' # "running"]_vars

\* C8: n Plus then Output on a zero tape, n in 0..255, writes the one byte
\* n to stdout and returns the one byte n.
C8_PlusRunOutputsOneByte ==
    \A n \in 0..255 :
        (program = PlusRun(n) /\ status = "returned")
            => (stdout = <<n>> /\ result = <<n>>)

\* C9: a Loop reached with the current cell 0 runs its body zero times and
\* changes nothing but the position in the program; reached with a non-zero
\* cell it starts a pass through its body; when a pass ends the same Loop
\* looks at the cell again, whatever loops ended inside the pass.  "[+]" on a
\* zero tape ends with no output, no error and the tape untouched.
C9_LoopRunsWhileCellNonZero ==
    /\ [][(At("Loop") /\ InBounds)
            => /\ UNCHANGED <<program, tape, tape_pointer, input, stdout, status,
                              panic_msg, result>>
               /\ Cell = 0 => stack' = [stack EXCEPT ![Depth].pc = @ + 1]
               /\ Cell # 0 => /\ Len(stack') = Depth + 1
                              /\ SubSeq(stack', 1, Depth) = stack
                              /\ stack'[Depth + 1].tokens = token.expr]_vars
    /\ [][(status = "running" /\ Depth > 1 /\ Frame.pc > Len(Frame.tokens))
            => /\ stack' = SubSeq(stack, 1, Depth - 1)
               /\ stack'[Depth - 1].tokens[stack'[Depth - 1].pc].op = "Loop"
               /\ UNCHANGED <<tape, tape_pointer, input, stdout, status>>]_vars
    /\ [](program = <<Loop(<<Plus>>)>>
            => /\ status # "panicked"
               /\ Depth = 1
               /\ stdout = <<>>
               /\ \A i \in 0..(TAPE_SIZE - 1) : tape[i] = 0
               /\ status = "returned" => result = <<>>)

\* The outer Loop of "++[>+[-]<-]" looks at its counter after a whole pass,
\* in which the inner loop ran and ended, and finds it non-zero.
C9_Witness ==
    /\ program = NestedLoop
    /\ At("Loop")
    /\ Depth = 1
    /\ tape_pointer = 0
    /\ Cell = 1

\* C10: once a pass through a loop body has started, every token of the body
\* is executed in order, from the first one, whatever the current cell
\* becomes on the way; the body is left only after its last token, and the
\* tape and the pointer the Loop then looks at are those the pass left.
C10_BodyRunsToItsEnd ==
    /\ [][(status = "running" /\ Depth > 1 /\ Frame.pc <= Len(Frame.tokens))
            => \/ status' = "panicked"
               \/ /\ Len(stack') >= Depth
                  /\ stack'[Depth].tokens = Frame.tokens
                  /\ IF Len(stack') = Depth
                     THEN stack'[Depth].pc = Frame.pc + 1
                     ELSE /\ stack'[Depth].pc = Frame.pc
                          /\ token.op = "Loop"
                          /\ Len(stack') = Depth + 1]_vars
    /\ [][Len(stack') > Depth => stack'[Len(stack')].pc = 1]_vars
    /\ [][(status = "running" /\ Depth > 1 /\ Frame.pc > Len(Frame.tokens))
            => /\ Len(stack') = Depth - 1
               /\ UNCHANGED <<tape, tape_pointer>>]_vars

\* In "+[-.+.-]" the Minus leaves the cell at 0 and the rest of the pass is
\* executed all the same: both Outputs of the first pass have written.
C10_Witness ==
    /\ program = ZeroMidBody
    /\ Depth = 2
    /\ stdout = <<0, 1>>

\* "+[]": a loop whose cell never reaches 0.
SpinForever == <<Plus, Loop(<<>>)>>

\* C11: a caller's request to stop a running program is honoured: the run of
\* "+[]" eventually ends with the outcome Cancelled.  (consume_tokens has no
\* parameter and reads no state through which a request could reach it, so a
\* request made at any moment leaves every step as it is.)
C11_CancelledIsReturned ==
    (program = SpinForever) => <>(status = "Cancelled")

\* C12: a run that fails stops at the failing token with a structured error
\* for the caller, and stdout holds exactly what was written before it.
C12_FailureIsStructuredError ==
    [][(status = "running" /\ status' \notin {"running", "returned"})
          => /\ status' \in {"TapeOverflow", "TapeUnderflow", "InputExhausted",
                             "InvalidInputCharacter"}
             /\ stdout' = stdout
             /\ stack' = stack]_vars

\* The chars of a sequence.
Chars(i) == {i[k] : k \in 1..Len(i)}

\* The chars that make a source of commands, brackets and whitespace, with
\* no comment in it.
PlainChars == {"+", "-", ">", "<", ".", ",", "[", "]", " ", "\n"}

\* C13: a source with a char at top level that starts no statement and is no
\* whitespace yields a ParseError, never a Program.  Stated for the sources
\* without brackets and without '/', where every char is at top level.
C13_UnexpectedCharIsParseError ==
    (/\ status # "parsing"
     /\ "x" \in Chars(source)
     /\ Chars(source) \cap {"[", "]", "/"} = {})
        => status = "ParseError"

\* The number of '[' of i minus its number of ']'.
RECURSIVE OpenBrackets(_)
OpenBrackets(i) ==
    IF i = <<>> THEN 0
    ELSE OpenBrackets(Tail(i))
            + (IF Head(i) = "[" THEN 1 ELSE IF Head(i) = "]" THEN -1 ELSE 0)

\* C14: a source in which a '[' has no matching ']' yields a ParseError, never
\* a Program.  Stated for the sources without '/', where no bracket is inside
\* a comment, that have more '[' than ']'.
C14_UnterminatedLoopIsParseError ==
    (/\ status # "parsing"
     /\ "/" \notin Chars(source)
     /\ OpenBrackets(source) > 0)
        => status = "ParseError"

\* C15: "+ //" parses, whole, to [Plus, Comment], as "+ //+\n+" parses to
\* [Plus, Comment, Plus].
C15_CommentEndsAtNewlineOrEof ==
    /\ (source = CommentAtEol /\ status # "parsing")
            => (status = "parsed" /\ remainder = <<>>
                    /\ program = <<Plus, Comment, Plus>>)
    /\ (source = CommentAtEof /\ status # "parsing")
            => (status = "parsed" /\ remainder = <<>>
                    /\ program = <<Plus, Comment>>)

\* Every prefix of i, read after `depth` open brackets, has at least as many
\* '[' as ']', and i as a whole closes them all.
RECURSIVE Balanced(_, _)
Balanced(i, depth) ==
    IF i = <<>> THEN depth = 0
    ELSE IF Head(i) = "[" THEN Balanced(Tail(i), depth + 1)
    ELSE IF Head(i) = "]" THEN depth > 0 /\ Balanced(Tail(i), depth - 1)
    ELSE Balanced(Tail(i), depth)

\* The token of a command char.
CommandToken(c) ==
    CASE c = "+" -> Plus [] c = "-" -> Minus [] c = ">" -> ShiftRight
      [] c = "<" -> ShiftLeft [] c = "." -> Output [] c = "," -> Input

\* The tree of the grammar Program := Statement*, Loop := '[' Statement* ']'
\* for a balanced source of PlainChars: the statements up to the first ']'
\* that closes none of them, and the source from that ']' on.
RECURSIVE Statements(_)
Statements(i) ==
    IF i = <<>> \/ Head(i) = "]" THEN [out |-> <<>>, rest |-> i]
    ELSE IF Head(i) \in {" ", "\n"} THEN Statements(Tail(i))
    ELSE IF Head(i) = "["
    THEN LET body == Statements(Tail(i))
             more == Statements(Tail(body.rest))
         IN  [out |-> <<Loop(body.out)>> \o more.out, rest |-> more.rest]
    ELSE LET more == Statements(Tail(i))
         IN  [out |-> <<CommandToken(Head(i))>> \o more.out, rest |-> more.rest]

\* C16: a source with balanced brackets, made of statements and whitespace,
\* is parsed whole into its tree, in source order, each '[' .. ']' one Loop
\* holding the statements between them, whitespace giving no token.  Stated
\* for the sources without comments.
C16_BalancedSourceParsesToItsTree ==
    (/\ status # "parsing"
     /\ Chars(source) \subseteq PlainChars
     /\ Balanced(source, 0))
        => /\ status = "parsed"
           /\ remainder = <<>>
           /\ program = Statements(source).out

\* C17: a "+", then [> b "+" <-], then ">" on a zero tape ends without error
\* with the pointer at 1, cell 0 at 0 and cell 1 at a * b mod 256.
C17_MultiplicationWraps ==
    \A p \in MultPairs :
        (program = Mult(p[1], p[2]) /\ status # "running")
            => /\ status = "returned"
               /\ tape_pointer = 1
               /\ tape[0] = 0
               /\ tape[1] = (p[1] * p[2]) % 256

\* C18: the input is consumed in order, one char per Input executed, from one
\* position shared by the program and its loop bodies: an Input takes the
\* first char left and, the char being one byte wide, stores it; nothing else
\* moves the position.  ",.>,." on two such chars ends with both stored, both
\* written and the pointer at 1.
C18_InputIsConsumedInOrder ==
    /\ [][(At("Input") /\ input # <<>> /\ Head(input) < 256 /\ InBounds)
            => /\ input' = Tail(input)
               /\ tape' = [tape EXCEPT ![tape_pointer] = Head(input)]
               /\ status' = "running"]_vars
    /\ [][input' # input => (At("Input") /\ input' = Tail(input))]_vars
    /\ [](program = ReadInput /\ status = "returned"
            => /\ input = <<>>
               /\ tape_pointer = 1
               /\ stdout = <<tape[0], tape[1]>>
               /\ result = stdout)

\* No token of the sequence is a Loop.
NoLoop(tokens) == \A k \in 1..Len(tokens) : tokens[k].op # "Loop"

\* C19: a run of a program without Loop ends: it is one call of
\* consume_tokens, each step of which executes the next token of the program,
\* once, or ends the run, by a failure at that token or by the return after
\* the last one; and a run that has not ended has a step to take.
C19_LoopFreeProgramsTerminate ==
    /\ []((NoLoop(program) /\ status \in {"running", "returned", "panicked"})
            => /\ Depth = 1
               /\ stack[1].pc \in 1..(Len(program) + 1)
               /\ status = "running" => ENABLED Next
               /\ status = "returned" => stack[1].pc = Len(program) + 1)
    /\ [][(NoLoop(program) /\ status = "running")
            => \/ status' = "running" /\ stack'[1].pc = stack[1].pc + 1
               \/ status' = "panicked" /\ stack' = stack
               \/ status' = "returned" /\ stack' = stack]_vars

\* ",.>,." has run its five tokens and returned.
C19_Witness ==
    /\ program = ReadInput
    /\ status = "returned"
    /\ stdout = <<72, 73>>

\* C20: Plus, Minus and Input change no cell but the one under the pointer
\* and not the pointer; ShiftRight and ShiftLeft change no cell; Output and
\* Comment change neither tape nor pointer; only Input moves the input
\* position; the program and the length of the tape never change.
C20_TokensChangeOnlyTheirPart ==
    /\ [][(At("Plus") \/ At("Minus") \/ At("Input"))
            => /\ tape_pointer' = tape_pointer
               /\ \A i \in DOMAIN tape :
                    i # tape_pointer => tape'[i] = tape[i]]_vars
    /\ [][(At("ShiftRight") \/ At("ShiftLeft")) => tape' = tape]_vars
    /\ [][(At("Output") \/ At("Comment"))
            => (tape' = tape /\ tape_pointer' = tape_pointer)]_vars
    /\ [][input' # input => At("Input")]_vars
    /\ [][program' = program /\ DOMAIN tape' = DOMAIN tape]_vars

\* "+++++++[>+++<-]>" has returned: Plus, Minus and both shifts have run on
\* two cells, and each cell holds what its own tokens made of it.
C20_Witness ==
    /\ program = Multiplication
    /\ status = "returned"
    /\ tape[0] = 0
    /\ tape[1] = 21
    /\ tape_pointer = 1

====
